---- MODULE Spec2Model ----
(***************************************************************************)
(* Mesh merge engine of the rose scene (mergeGeometries) and the callers   *)
(* that build its argument array.                                          *)
(*                                                                         *)
(* Typed arrays live in a heap (a sequence of number sequences; the id of  *)
(* an array is its position in the heap), so that copying, aliasing and    *)
(* mutation of an input are visible.  A buffer attribute is a reference to *)
(* a heap array plus an item size; a geometry is four optional attributes. *)
(* Array element i of the source (0-based) is element i+1 of the sequence. *)
(*                                                                         *)
(* The second part models the Rose component: the geometry factories of    *)
(* FlowerHead, Sepals and Stem behind useMemo, the petal and thorn         *)
(* placement loops, re-renders and frame callbacks.  There a buffer is an  *)
(* object id with the number of geometries merged into it.                 *)
(* Lengths are integers: petal placement in units of 1/3000, angles in     *)
(* tenths of a degree, curve parameters in millionths; vectors are         *)
(* rationals with a common denominator.                                    *)
(***************************************************************************)
EXTENDS Integers, Sequences, FiniteSets, TLC

\* ------------------------------------------------------------------ bounds
\* Most primitives the callers create during one run.
MaxGeos == 3
\* Largest vertex count of one primitive.
MaxVerts == 4
\* The vertex counts of the non-empty primitives: the two largest.
VertexCounts == {MaxVerts - 1, MaxVerts}
\* Most calls of mergeGeometries during one run.
MaxCalls == 2

\* Render passes of Rose and frame callbacks explored.
MaxRenders == 2
MaxFrames == 2

\* ------------------------------------------------------- buffer attributes
NoAttr == [present |-> FALSE, array |-> 0, itemSize |-> 0]

Attr(id, size) == [present |-> TRUE, array |-> id, itemSize |-> size]

\* new THREE.BufferGeometry(): no attribute, no index.
EmptyGeometry == [position |-> NoAttr, normal |-> NoAttr, uv |-> NoAttr, index |-> NoAttr]

\* BufferAttribute.count: array length / item size.
Count(h, a) == Len(h[a.array]) \div a.itemSize

\* idx.getX(i)
GetX(h, a, i) == h[a.array][i * a.itemSize + 1]

\* Storing a number in a Float32Array rounds it to the nearest float32; the
\* integers of magnitude up to 2^24 are stored exactly, larger ones are rounded
\* to an even integer (spacing 2 up to 2^25).
Fround(x) ==
  IF -(2^24) <= x /\ x <= 2^24 THEN x
  ELSE IF x % 2 = 0 THEN x
  ELSE IF ((x + 1) \div 2) % 2 = 0 THEN x + 1 ELSE x - 1

\* Storing a number in a Uint32Array keeps it modulo 2^32.  Every number of the
\* model is an index or an offset in 0 .. 2^31 - 1, which is stored unchanged;
\* a negative number (none arises) is not a value of the array.
ToUint32(x) == IF x >= 0 THEN x ELSE -1

\* new Float32Array(n) / new Uint32Array(n): n zeros.
Zeros(n) == [k \in 1..n |-> 0]

\* Float32Array.prototype.set(src, offset) on dst.
SetFloat32(dst, src, offset) ==
  [k \in 1..Len(dst) |->
     IF offset < k /\ k <= offset + Len(src) THEN Fround(src[k - offset]) ELSE dst[k]]

VARIABLES
  heap,           \* the typed arrays allocated so far
  geometries,     \* the array the caller builds and passes to mergeGeometries
  argDefined,     \* FALSE when mergeGeometries is called without an array
  pc,             \* "build" | "count" | "alloc" | "copy" | "finish" | "returned" | "thrown"
  gi,             \* position of the for-of loops in geometries (1-based)
  totalVertices, totalIndices,
  positionArr, normalArr, uvArr, indicesArr,   \* heap ids of the output arrays, 0 before allocation
  vertexOffset, indexOffset,
  merged,         \* [returned, geo]: the value the current call returned
  leafBaseGeo,    \* [returned, geo]: the buffer the caller kept from an earlier call
  cloned,         \* the positions in geometries that hold clones of leafBaseGeo
  pushes,         \* primitives created so far
  calls,          \* calls of mergeGeometries so far
  inner           \* the array of the earlier call whose result the caller kept

VARIABLES
  phase,          \* "unmounted" | "FlowerHead" | "Sepals" | "Stem" | "mounted"
  step,           \* position inside the component function that runs
  loopI,          \* loop counter of the factory that runs
  parts,          \* length of the array the factory builds
  petals,         \* the petal placements computed so far
  thorn,          \* the latest thorn placement
  prevT,          \* the curve parameter of the thorn before it, -1 if none
  mergeCalls,     \* per organ: calls of mergeGeometries during its factory
  sinceMerge,     \* geometries pushed since the last call of mergeGeometries
  lastMerged,     \* the buffer the last call of mergeGeometries returned
  memo,           \* per organ: the useMemo cell of meshGeometry
  synth,          \* per organ: how often the factory ran
  handed,         \* per organ: the geometry prop of the mesh last rendered
  nextId,         \* the next fresh object id
  renders,        \* render passes of Rose so far
  frames,         \* frame callbacks so far
  emissive,       \* materialRef.current.emissiveIntensity, in tenths
  rotation        \* groupRef.current.rotation as the sign of the sine terms

mergeVars == <<heap, geometries, argDefined, pc, gi, totalVertices, totalIndices,
               positionArr, normalArr, uvArr, indicesArr, vertexOffset, indexOffset,
               merged, leafBaseGeo, cloned, pushes, calls, inner>>

roseVars == <<phase, step, loopI, parts, petals, thorn, prevT, mergeCalls, sinceMerge,
              lastMerged, memo, synth, handed, nextId, renders, frames, emissive, rotation>>

vars == <<mergeVars, roseVars>>

locals == <<gi, totalVertices, totalIndices, positionArr, normalArr, uvArr,
            indicesArr, vertexOffset, indexOffset>>

NoResult == [returned |-> FALSE, geo |-> EmptyGeometry]

\* The state before any array is built.
MergeInit ==
  /\ heap = <<>>
  /\ geometries = <<>>
  /\ argDefined = TRUE
  /\ pc = "build"
  /\ gi = 1
  /\ totalVertices = 0 /\ totalIndices = 0
  /\ positionArr = 0 /\ normalArr = 0 /\ uvArr = 0 /\ indicesArr = 0
  /\ vertexOffset = 0 /\ indexOffset = 0
  /\ merged = NoResult
  /\ leafBaseGeo = NoResult
  /\ cloned = {}
  /\ pushes = 0
  /\ calls = 0
  /\ inner = <<>>

\* -------------------------------------------------------- primitive provider
\* The primitives come from the geometry library (SphereGeometry, TubeGeometry,
\* ExtrudeGeometry, ...).  A primitive is described by its vertex count and by
\* which attributes it carries; its numbers are chosen so that the vertices of
\* different primitives differ.  p is the ordinal of the primitive.
PositionData(p, n) == [k \in 1..(3 * n) |-> 100 * p + k]

\* Unit normals along +-x / +-z, never the merge default (0,1,0).
NormalData(p, n) ==
  [k \in 1..(3 * n) |->
     LET v == (k - 1) \div 3
         c == (k - 1) % 3
         a == (v + p) % 4
     IN  IF c = 0 THEN (IF a = 0 THEN 1 ELSE IF a = 2 THEN -1 ELSE 0)
         ELSE IF c = 2 THEN (IF a = 1 THEN 1 ELSE IF a = 3 THEN -1 ELSE 0)
         ELSE 0]

\* Texture coordinates in {0,1} x {1}, never (0,0).
UvData(p, n) ==
  [k \in 1..(2 * n) |-> IF (k - 1) % 2 = 0 THEN (((k - 1) \div 2) + p) % 2 ELSE 1]

\* A triangle fan with reversed winding over the n vertices: max(1, n-2)
\* triangles (t+2, t+1, 0), every index < n; no index for n = 0.
IndexData(n) ==
  IF n = 0 THEN <<>>
  ELSE LET tris == IF n > 2 THEN n - 2 ELSE 1
       IN  [k \in 1..(3 * tris) |->
              LET t == (k - 1) \div 3
                  c == (k - 1) % 3
              IN  IF c = 0 THEN (t + 2) % n ELSE IF c = 1 THEN (t + 1) % n ELSE 0]

\* The attribute sets a primitive can carry: an indexed library primitive with
\* normals and uvs, a non-indexed one with normals only, an indexed one with
\* uvs only, bare positions, and a geometry without any attribute.
Kinds ==
  { [position |-> TRUE,  normal |-> TRUE,  uv |-> TRUE,  index |-> TRUE],
    [position |-> TRUE,  normal |-> TRUE,  uv |-> FALSE, index |-> FALSE],
    [position |-> TRUE,  normal |-> FALSE, uv |-> TRUE,  index |-> TRUE],
    [position |-> TRUE,  normal |-> FALSE, uv |-> FALSE, index |-> FALSE],
    [position |-> FALSE, normal |-> FALSE, uv |-> FALSE, index |-> FALSE] }

\* The kinds of the primitives without a vertex: a position attribute over an
\* empty array, and no attribute at all.
EmptyKinds ==
  { [position |-> TRUE,  normal |-> FALSE, uv |-> FALSE, index |-> FALSE],
    [position |-> FALSE, normal |-> FALSE, uv |-> FALSE, index |-> FALSE] }

\* The arrays a new primitive allocates, in allocation order.
PrimitiveArrays(p, n, kind) ==
     (IF kind.position THEN <<PositionData(p, n)>> ELSE <<>>)
  \o (IF kind.normal THEN <<NormalData(p, n)>> ELSE <<>>)
  \o (IF kind.uv THEN <<UvData(p, n)>> ELSE <<>>)
  \o (IF kind.index THEN <<IndexData(n)>> ELSE <<>>)

\* The geometry object of a new primitive whose arrays start at heap id base + 1.
Primitive(base, kind) ==
  LET pId == base + 1
      nId == base + 1 + (IF kind.position THEN 1 ELSE 0)
      uId == nId + (IF kind.normal THEN 1 ELSE 0)
      iId == uId + (IF kind.uv THEN 1 ELSE 0)
  IN  [position |-> IF kind.position THEN Attr(pId, 3) ELSE NoAttr,
       normal   |-> IF kind.normal THEN Attr(nId, 3) ELSE NoAttr,
       uv       |-> IF kind.uv THEN Attr(uId, 2) ELSE NoAttr,
       index    |-> IF kind.index THEN Attr(iId, 1) ELSE NoAttr]

\* geos.push(new primitive)
Push ==
  /\ pc = "build"
  /\ pushes < MaxGeos
  /\ \E n \in VertexCounts \cup {0}, kind \in Kinds :
       /\ n = 0 => kind \in EmptyKinds
       /\ (~kind.position) => n = 0
       /\ heap' = heap \o PrimitiveArrays(pushes + 1, n, kind)
       /\ geometries' = Append(geometries, Primitive(Len(heap), kind))
  /\ pushes' = pushes + 1
  /\ UNCHANGED <<argDefined, pc, locals, merged, leafBaseGeo, cloned, calls>>

\* ------------------------------------------------------------ mergeGeometries
\* Mutant: only the length is tested, so a missing array is not taken as empty
\* (and reading its length throws).
IsEmptyInputLengthOnly(defined, geos) == defined /\ Len(geos) = 0

\* !geometries || geometries.length === 0
IsEmptyInput(defined, geos) == ~defined \/ Len(geos) = 0

\* Entry of mergeGeometries(geometries); passed = FALSE is a call without an array.
Call ==
  /\ pc = "build"
  /\ calls < MaxCalls
  /\ \E passed \in BOOLEAN :
       /\ (~passed) => geometries = <<>>
       /\ argDefined' = passed
       /\ IF IsEmptyInput(passed, geometries)
            THEN /\ pc' = "returned"
                 /\ merged' = [returned |-> TRUE, geo |-> EmptyGeometry]
            ELSE /\ pc' = IF passed THEN "count" ELSE "thrown"
                 /\ merged' = NoResult
  /\ calls' = calls + 1
  /\ gi' = 1
  /\ totalVertices' = 0 /\ totalIndices' = 0
  /\ positionArr' = 0 /\ normalArr' = 0 /\ uvArr' = 0 /\ indicesArr' = 0
  /\ vertexOffset' = 0 /\ indexOffset' = 0
  /\ UNCHANGED <<heap, geometries, leafBaseGeo, cloned, pushes>>

\* Mutant: every input is counted as if it had no index.
IndexContributionVertexCount(h, geo) == Count(h, geo.position)

\* What one input adds to totalIndices.
IndexContribution(h, geo) ==
  IF geo.index.present THEN Count(h, geo.index) ELSE Count(h, geo.position)

\* geo.attributes.position.count on a geometry without position: TypeError.
LacksPosition(geo) == ~geo.position.present

\* Mutant: an input without position is skipped instead of read.
CountStepSkipsPositionless ==
  /\ pc = "count"
  /\ gi <= Len(geometries)
  /\ LET geo == geometries[gi]
     IN  /\ totalVertices' = totalVertices
                             + (IF LacksPosition(geo) THEN 0 ELSE Count(heap, geo.position))
         /\ totalIndices' = totalIndices
                            + (IF LacksPosition(geo) THEN 0 ELSE IndexContribution(heap, geo))
         /\ gi' = gi + 1
         /\ pc' = IF gi = Len(geometries) THEN "alloc" ELSE "count"
  /\ UNCHANGED <<heap, geometries, argDefined, positionArr, normalArr, uvArr,
                 indicesArr, vertexOffset, indexOffset, merged, leafBaseGeo, cloned,
                 pushes, calls>>

\* One iteration of the first loop.
CountStep ==
  /\ pc = "count"
  /\ gi <= Len(geometries)
  /\ LET geo == geometries[gi]
     IN  IF LacksPosition(geo)
           THEN /\ pc' = "thrown"
                /\ UNCHANGED <<gi, totalVertices, totalIndices>>
           ELSE /\ totalVertices' = totalVertices + Count(heap, geo.position)
                /\ totalIndices' = totalIndices + IndexContribution(heap, geo)
                /\ gi' = gi + 1
                /\ pc' = IF gi = Len(geometries) THEN "alloc" ELSE "count"
  /\ UNCHANGED <<heap, geometries, argDefined, positionArr, normalArr, uvArr,
                 indicesArr, vertexOffset, indexOffset, merged, leafBaseGeo, cloned,
                 pushes, calls>>

\* Mutant: the first input's position array is reused as the output's.
OutputIdsReuseFirst(h, geos) ==
  [position |-> geos[1].position.array, normal |-> Len(h) + 2, uv |-> Len(h) + 3,
   index |-> Len(h) + 4]

\* The heap ids of the four output arrays.
OutputIds(h, geos) ==
  [position |-> Len(h) + 1, normal |-> Len(h) + 2, uv |-> Len(h) + 3, index |-> Len(h) + 4]

\* Allocation of the four output arrays and reset of the running offsets.
Alloc ==
  /\ pc = "alloc"
  /\ LET ids == OutputIds(heap, geometries)
     IN  /\ heap' = heap \o <<Zeros(totalVertices * 3), Zeros(totalVertices * 3),
                              Zeros(totalVertices * 2), Zeros(totalIndices)>>
         /\ positionArr' = ids.position
         /\ normalArr' = ids.normal
         /\ uvArr' = ids.uv
         /\ indicesArr' = ids.index
  /\ vertexOffset' = 0 /\ indexOffset' = 0
  /\ gi' = 1
  /\ pc' = "copy"
  /\ UNCHANGED <<geometries, argDefined, totalVertices, totalIndices, merged,
                 leafBaseGeo, cloned, pushes, calls>>

\* Mutant: the running offset scaled by the uv stride.
PositionDestUvStride(vOff) == vOff * 2

\* Start of an input's run in positionArr.
PositionDest(vOff) == vOff * 3

\* Mutant: the running offset is forgotten.
DefaultNormalSlotNoOffset(vOff, k) == k * 3 + 1

\* Slot of the y component of the default normal of vertex k of an input.
DefaultNormalSlot(vOff, k) == (vOff + k) * 3 + 1

\* Mutant: the running offset scaled by the position stride.
UvDestPositionStride(vOff) == vOff * 3

\* Start of an input's run in uvArr.
UvDest(vOff) == vOff * 2

\* Mutant: the offset of the end of the previous input's run, off by one.
RebasedIndexOffByOne(x, vOff) == ToUint32(x + vOff + 1)

\* idx.getX(i) + vertexOffset, as stored in the Uint32Array.
RebasedIndex(x, vOff) == ToUint32(x + vOff)

\* Mutant: the sequential run is not offset.
SequentialIndexUnshifted(i, vOff) == ToUint32(i)

\* i + vertexOffset, as stored in the Uint32Array.
SequentialIndex(i, vOff) == ToUint32(i + vOff)

\* for (k < pos.count) normalArr[(vertexOffset+k)*3 + 1] = 1.0
\* (a store past the end of a typed array is ignored)
DefaultNormals(dst, vOff, count) ==
  [j \in 1..Len(dst) |->
     IF \E k \in 0..(count - 1) : j = DefaultNormalSlot(vOff, k) + 1
       THEN Fround(1) ELSE dst[j]]

\* The index loop of one input, indexed or not.
WriteIndices(h, dst, geo, iOff, vOff) ==
  LET n == IndexContribution(h, geo)
  IN  [j \in 1..Len(dst) |->
         LET i == j - 1 - iOff
         IN  IF 0 <= i /\ i < n
               THEN IF geo.index.present
                      THEN RebasedIndex(GetX(h, geo.index, i), vOff)
                      ELSE SequentialIndex(i, vOff)
               ELSE dst[j]]

\* TypedArray.set throws a RangeError when the source does not fit.
SetOverflows(dst, src, offset) == offset + Len(src) > Len(dst)

\* Whether this iteration of the second loop throws.
CopyThrows(h, geo, pArr, nArr, uArr, vOff) ==
  \/ LacksPosition(geo)
  \/ SetOverflows(h[pArr], h[geo.position.array], PositionDest(vOff))
  \/ geo.normal.present /\ SetOverflows(h[nArr], h[geo.normal.array], vOff * 3)
  \/ geo.uv.present /\ SetOverflows(h[uArr], h[geo.uv.array], UvDest(vOff))

\* One iteration of the second loop: the heap after the input is copied.
\* The writes are applied in source order, each to the heap the previous left.
CopyInto(h, geo, pArr, nArr, uArr, iArr, vOff, iOff) ==
  LET h1 == [h EXCEPT ![pArr] = SetFloat32(h[pArr], h[geo.position.array], PositionDest(vOff))]
      h2 == IF geo.normal.present
              THEN [h1 EXCEPT ![nArr] = SetFloat32(h1[nArr], h1[geo.normal.array], vOff * 3)]
              ELSE [h1 EXCEPT ![nArr] = DefaultNormals(h1[nArr], vOff, Count(h1, geo.position))]
      h3 == IF geo.uv.present
              THEN [h2 EXCEPT ![uArr] = SetFloat32(h2[uArr], h2[geo.uv.array], UvDest(vOff))]
              ELSE h2
  IN  [h3 EXCEPT ![iArr] = WriteIndices(h3, h3[iArr], geo, iOff, vOff)]

CopyStep ==
  /\ pc = "copy"
  /\ gi <= Len(geometries)
  /\ LET geo == geometries[gi]
     IN  IF CopyThrows(heap, geo, positionArr, normalArr, uvArr, vertexOffset)
           THEN /\ pc' = "thrown"
                /\ UNCHANGED <<heap, gi, vertexOffset, indexOffset>>
           ELSE /\ heap' = CopyInto(heap, geo, positionArr, normalArr, uvArr, indicesArr,
                                    vertexOffset, indexOffset)
                /\ indexOffset' = indexOffset + IndexContribution(heap, geo)
                /\ vertexOffset' = vertexOffset + Count(heap, geo.position)
                /\ gi' = gi + 1
                /\ pc' = IF gi = Len(geometries) THEN "finish" ELSE "copy"
  /\ UNCHANGED <<geometries, argDefined, totalVertices, totalIndices, positionArr,
                 normalArr, uvArr, indicesArr, merged, leafBaseGeo, cloned, pushes, calls>>

\* The merged geometry is built from the four output arrays and returned.
Finish ==
  /\ pc = "finish"
  /\ merged' = [returned |-> TRUE,
                geo |-> [position |-> Attr(positionArr, 3),
                         normal   |-> Attr(normalArr, 3),
                         uv       |-> Attr(uvArr, 2),
                         index    |-> Attr(indicesArr, 1)]]
  /\ pc' = "returned"
  /\ UNCHANGED <<heap, geometries, argDefined, locals, leafBaseGeo, cloned, pushes, calls>>

\* ------------------------------------------------------------------- callers
\* BufferGeometry.clone(): every attribute present is copied into a new array.
CloneArrays(h, geo) ==
     (IF geo.position.present THEN <<h[geo.position.array]>> ELSE <<>>)
  \o (IF geo.normal.present THEN <<h[geo.normal.array]>> ELSE <<>>)
  \o (IF geo.uv.present THEN <<h[geo.uv.array]>> ELSE <<>>)
  \o (IF geo.index.present THEN <<h[geo.index.array]>> ELSE <<>>)

\* Mutant: the instance is the base itself, not a copy.
CloneAlias(base, geo) == geo

Clone(base, geo) ==
  Primitive(base, [position |-> geo.position.present, normal |-> geo.normal.present,
                   uv |-> geo.uv.present, index |-> geo.index.present])

\* inst.applyMatrix4(mat) on the clone's own arrays.  The placement is taken as a
\* translation by t along every axis (the linear part of mat as the identity),
\* which moves the positions and leaves the normals; a geometry without
\* position is left as it is.
ApplyMatrix4(h, geo, t) ==
  IF geo.position.present
    THEN [h EXCEPT ![geo.position.array] =
            [k \in 1..Len(h[geo.position.array]) |-> Fround(h[geo.position.array][k] + t)]]
    ELSE h

\* The translation of the instance with ordinal p.
InstanceShift(p) == 1000 * p

\* const leafBaseGeo = createFullLeafGeometry(): the caller keeps the buffer the
\* call returned and goes on building an array of its own.
NewArray ==
  /\ pc = "returned"
  /\ calls < MaxCalls
  /\ leafBaseGeo' = merged
  /\ geometries' = <<>>
  /\ cloned' = {}
  /\ pc' = "build"
  /\ UNCHANGED <<heap, argDefined, locals, merged, pushes, calls>>

\* const inst = leafBaseGeo.clone(); ...; geometries.push(inst)
PushClone ==
  /\ pc = "build"
  /\ leafBaseGeo.returned
  /\ pushes < MaxGeos
  /\ LET inst == Clone(Len(heap), leafBaseGeo.geo)
     IN  /\ heap' = ApplyMatrix4(heap \o CloneArrays(heap, leafBaseGeo.geo), inst,
                                 InstanceShift(pushes + 1))
         /\ geometries' = Append(geometries, inst)
  /\ cloned' = cloned \cup {Len(geometries) + 1}
  /\ pushes' = pushes + 1
  /\ UNCHANGED <<argDefined, pc, locals, merged, leafBaseGeo, calls>>

\* ------------------------------------------------------------ nested merges
\* Mutant: the buffer returned is moved in place before it goes on the array.
NestResultShifted ==
  /\ pc = "returned"
  /\ ~leafBaseGeo.returned
  /\ calls < MaxCalls
  /\ leafBaseGeo' = merged
  /\ inner' = geometries
  /\ heap' = ApplyMatrix4(heap, merged.geo, InstanceShift(1))
  /\ geometries' = <<merged.geo>>
  /\ cloned' = {1}
  /\ pc' = "build"
  /\ UNCHANGED <<argDefined, locals, merged, pushes, calls>>

\* The caller starts a new array with the buffer the call returned, the buffer
\* itself, neither cloned nor moved; inner remembers the array just merged.
NestResult ==
  /\ pc = "returned"
  /\ ~leafBaseGeo.returned
  /\ calls < MaxCalls
  /\ leafBaseGeo' = merged
  /\ inner' = geometries
  /\ geometries' = <<merged.geo>>
  /\ cloned' = {1}
  /\ pc' = "build"
  /\ UNCHANGED <<heap, argDefined, locals, merged, pushes, calls>>

NestNext ==
  \/ Push /\ UNCHANGED <<inner, roseVars>>
  \/ Call /\ UNCHANGED <<inner, roseVars>>
  \/ CountStep /\ UNCHANGED <<inner, roseVars>>
  \/ Alloc /\ UNCHANGED <<inner, roseVars>>
  \/ CopyStep /\ UNCHANGED <<inner, roseVars>>
  \/ Finish /\ UNCHANGED <<inner, roseVars>>
  \/ NestResult /\ UNCHANGED roseVars

\* ============================================================ Rose component
Organs == {"FlowerHead", "Sepals", "Stem"}

NoBuffer == [id |-> 0, parts |-> 0]

NoMemo == [set |-> FALSE, buf |-> NoBuffer]

\* ------------------------------------------------------------------ vectors
\* A vector is (x, y, z) / d with integers x, y, z and d > 0, in lowest terms.
Abs(x) == IF x < 0 THEN -x ELSE x

RECURSIVE Gcd(_, _)
Gcd(a, b) == IF b = 0 THEN a ELSE Gcd(b, a % b)

Vec(x, y, z, d) ==
  LET g == Gcd(Gcd(Gcd(Abs(x), Abs(y)), Abs(z)), d)
  IN  [x |-> x \div g, y |-> y \div g, z |-> z \div g, d |-> d \div g]

\* The numerator of the squared length: lengthSq = Norm2(v) / d^2.
Norm2(v) == v.x * v.x + v.y * v.y + v.z * v.z

\* lengthSq() < num / den
LengthSqBelow(v, num, den) == Norm2(v) * den < num * v.d * v.d

\* The largest r in lo..hi with r * r <= n, by bisection.
RECURSIVE SqrtIn(_, _, _)
SqrtIn(lo, hi, n) ==
  IF lo = hi THEN lo
  ELSE LET mid == (lo + hi + 1) \div 2
       IN  IF mid * mid <= n THEN SqrtIn(mid, hi, n) ELSE SqrtIn(lo, mid - 1, n)

\* Math.sqrt on the squares below 2^31.
Sqrt(n) == SqrtIn(0, IF n < 46340 THEN n ELSE 46340, n)

\* normalize(): divideScalar(length() || 1), the zero vector stays zero.
Normalize(v) ==
  IF Norm2(v) = 0 THEN v ELSE Vec(v.x, v.y, v.z, Sqrt(Norm2(v)))

\* crossVectors(a, b)
CrossVectors(a, b) ==
  Vec(a.y * b.z - a.z * b.y, a.z * b.x - a.x * b.z, a.x * b.y - a.y * b.x, a.d * b.d)

Negate(v) == [v EXCEPT !.x = -v.x, !.y = -v.y, !.z = -v.z]

\* applyAxisAngle(axis, angle) for a unit axis k and cos = rot.c / rot.m,
\* sin = rot.s / rot.m: v cos + (k x v) sin + k (k . v) (1 - cos).
ApplyAxisAngle(v, k, rot) ==
  LET cx == k.y * v.z - k.z * v.y
      cy == k.z * v.x - k.x * v.z
      cz == k.x * v.y - k.y * v.x
      dot == k.x * v.x + k.y * v.y + k.z * v.z
  IN  Vec(v.x * rot.c * k.d * k.d + cx * rot.s * k.d + k.x * dot * (rot.m - rot.c),
          v.y * rot.c * k.d * k.d + cy * rot.s * k.d + k.y * dot * (rot.m - rot.c),
          v.z * rot.c * k.d * k.d + cz * rot.s * k.d + k.z * dot * (rot.m - rot.c),
          k.d * k.d * v.d * rot.m)

ZeroVec == [x |-> 0, y |-> 0, z |-> 0, d |-> 1]

NoThorn == [i |-> -1, tBase |-> 0, tJitter |-> 0, t |-> 0, raw |-> ZeroVec, tangent |-> ZeroVec,
            up |-> ZeroVec, xAxis |-> ZeroVec, yAxis |-> ZeroVec, zAxis |-> ZeroVec]

\* Nothing is mounted.
RoseInit ==
  /\ phase = "unmounted"
  /\ step = "none"
  /\ loopI = 0
  /\ parts = 0
  /\ petals = <<>>
  /\ thorn = NoThorn
  /\ prevT = -1
  /\ mergeCalls = [o \in Organs |-> 0]
  /\ sinceMerge = 0
  /\ lastMerged = NoBuffer
  /\ memo = [o \in Organs |-> NoMemo]
  /\ synth = [o \in Organs |-> 0]
  /\ handed = [o \in Organs |-> NoMemo]
  /\ nextId = 1
  /\ renders = 0
  /\ frames = 0
  /\ emissive = 12
  /\ rotation = 0

\* --------------------------------------------------------- petal placement
totalPetals == 22

\* Mutant: the golden angle rounded to 135 degrees.
ThetaRounded(i) == i * 1350

\* theta = i * goldenAngle, goldenAngle = 137.5 degrees; in tenths of a degree.
Theta(i) == i * 1375

\* Mutant: the first tier ends one petal late.
PetalConfigLateTier(i) ==
  IF i <= 5 THEN [radius |-> 150, y |-> 1800 + i * 90, scale |-> 1050, rotX |-> 300]
  ELSE IF i < 10 THEN [radius |-> 450 + ((i - 5) * 240) \div 5, y |-> 1950 - ((i - 5) * 300) \div 5,
                       scale |-> 1500 + ((i - 5) * 450) \div 5, rotX |-> 150]
  ELSE IF i < 16 THEN [radius |-> 750 + ((i - 10) * 450) \div 6, y |-> 1650 - ((i - 10) * 240) \div 6,
                       scale |-> 2100 + ((i - 10) * 450) \div 6, rotX |-> 300]
  ELSE [radius |-> 1350 + ((i - 16) * 150) \div 6, y |-> 1350 - ((i - 16) * 150) \div 6,
        scale |-> 2850, rotX |-> 600]

\* The config of petal i, in units of 1/3000 (0.05 = 150, 0.03 = 90, 0.08 = 240,
\* 0.1 = 300, 0.15 = 450); t = (i - 5) / 5 or (i - 10) / 6 or (i - 16) / 6, and
\* every product t * c is a whole number of units.
PetalConfig(i) ==
  IF i < 5 THEN [radius |-> 150, y |-> 1800 + i * 90, scale |-> 1050, rotX |-> 300]
  ELSE IF i < 10 THEN [radius |-> 450 + ((i - 5) * 240) \div 5, y |-> 1950 - ((i - 5) * 300) \div 5,
                       scale |-> 1500 + ((i - 5) * 450) \div 5, rotX |-> 150]
  ELSE IF i < 16 THEN [radius |-> 750 + ((i - 10) * 450) \div 6, y |-> 1650 - ((i - 10) * 240) \div 6,
                       scale |-> 2100 + ((i - 10) * 450) \div 6, rotX |-> 300]
  ELSE [radius |-> 1350 + ((i - 16) * 150) \div 6, y |-> 1350 - ((i - 16) * 150) \div 6,
        scale |-> 2850, rotX |-> 600]

\* The placement of petal i: its angle, its config and rotY = -theta - 90 degrees
\* (x and z are radius * cos theta and radius * sin theta).
PetalPlacement(i) ==
  [i |-> i, theta |-> Theta(i), radius |-> PetalConfig(i).radius, y |-> PetalConfig(i).y,
   scale |-> PetalConfig(i).scale, rotX |-> PetalConfig(i).rotX, rotY |-> -Theta(i) - 900]

\* ------------------------------------------------------------------ useMemo
\* Mutant: no dependency array, the factory runs on every render.
DepsChangedAlways(prev, next) == TRUE

\* The dependency arrays of the two renders differ in some place.
DepsChanged(prev, next) == \E k \in 1..Len(prev) : prev[k] # next[k]

FirstStep(o) == IF o = "FlowerHead" THEN "petals" ELSE IF o = "Sepals" THEN "base" ELSE "stem"

\* A render pass of Rose starts: FlowerHead runs first.
StartRender ==
  /\ phase \in {"unmounted", "mounted"}
  /\ renders < MaxRenders
  /\ renders' = renders + 1
  /\ phase' = "FlowerHead"
  /\ step' = "useMemo"
  /\ UNCHANGED <<loopI, parts, petals, thorn, prevT, mergeCalls, sinceMerge, lastMerged,
                 memo, synth, handed, nextId, frames, emissive, rotation>>

\* const meshGeometry = useMemo(() => {...}, []): the cached buffer is taken, or
\* the factory starts with an empty array.
UseMemo ==
  /\ phase \in Organs
  /\ step = "useMemo"
  /\ IF memo[phase].set /\ ~DepsChanged(<<>>, <<>>)
       THEN /\ step' = "jsx"
            /\ UNCHANGED <<loopI, parts, petals, thorn, prevT, mergeCalls, sinceMerge, synth>>
       ELSE /\ step' = FirstStep(phase)
            /\ synth' = [synth EXCEPT ![phase] = @ + 1]
            /\ mergeCalls' = [mergeCalls EXCEPT ![phase] = 0]
            /\ loopI' = 0
            /\ parts' = 0
            /\ sinceMerge' = 0
            /\ petals' = IF phase = "FlowerHead" THEN <<>> ELSE petals
            /\ thorn' = IF phase = "Stem" THEN NoThorn ELSE thorn
            /\ prevT' = IF phase = "Stem" THEN -1 ELSE prevT
  /\ UNCHANGED <<phase, lastMerged, memo, handed, nextId, renders, frames, emissive, rotation>>

\* One geometry is pushed on the factory's array.
PushPart == parts' = parts + 1 /\ sinceMerge' = sinceMerge + 1

\* mergeGeometries(geometries) seen from the factory: a new buffer made of the
\* array's geometries.
MergeCall(o) ==
  /\ lastMerged' = [id |-> nextId, parts |-> parts]
  /\ nextId' = nextId + 1
  /\ mergeCalls' = [mergeCalls EXCEPT ![o] = @ + 1]
  /\ sinceMerge' = 0

\* The factory returns buf: useMemo stores it.
FactoryReturn(o, buf) ==
  /\ memo' = [memo EXCEPT ![o] = [set |-> TRUE, buf |-> buf]]
  /\ step' = "jsx"

\* One iteration of the petal loop.
PetalStep ==
  /\ phase = "FlowerHead" /\ step = "petals"
  /\ loopI < totalPetals
  /\ petals' = Append(petals, PetalPlacement(loopI))
  /\ PushPart
  /\ loopI' = loopI + 1
  /\ step' = IF loopI + 1 < totalPetals THEN "petals" ELSE "center"
  /\ UNCHANGED <<phase, thorn, prevT, mergeCalls, lastMerged, memo, synth, handed, nextId,
                 renders, frames, emissive, rotation>>

\* The centre sphere is pushed.
CenterStep ==
  /\ phase = "FlowerHead" /\ step = "center"
  /\ PushPart
  /\ step' = "merge"
  /\ UNCHANGED <<phase, loopI, petals, thorn, prevT, mergeCalls, lastMerged, memo, synth,
                 handed, nextId, renders, frames, emissive, rotation>>

\* const merged = mergeGeometries(geometries)
FlowerMerge ==
  /\ phase = "FlowerHead" /\ step = "merge"
  /\ MergeCall("FlowerHead")
  /\ step' = "sphere"
  /\ UNCHANGED <<phase, loopI, parts, petals, thorn, prevT, memo, synth, handed, renders,
                 frames, emissive, rotation>>

\* merged.computeBoundingSphere(); return merged
FlowerReturn ==
  /\ phase = "FlowerHead" /\ step = "sphere"
  /\ FactoryReturn("FlowerHead", lastMerged)
  /\ UNCHANGED <<phase, loopI, parts, petals, thorn, prevT, mergeCalls, sinceMerge,
                 lastMerged, synth, handed, nextId, renders, frames, emissive, rotation>>

\* The component returns <mesh geometry={meshGeometry}>; the next component of
\* Rose runs, or the pass is over.
ReturnJsx ==
  /\ phase \in Organs
  /\ step = "jsx"
  /\ handed' = [handed EXCEPT ![phase] = memo[phase]]
  /\ phase' = IF phase = "FlowerHead" THEN "Sepals" ELSE IF phase = "Sepals" THEN "Stem" ELSE "mounted"
  /\ step' = IF phase = "Stem" THEN "none" ELSE "useMemo"
  /\ UNCHANGED <<loopI, parts, petals, thorn, prevT, mergeCalls, sinceMerge, lastMerged, memo,
                 synth, nextId, renders, frames, emissive, rotation>>

\* ------------------------------------------------------------------- Sepals
sepalCount == 6

\* const baseGeo = createSepalGeometry()
SepalBase ==
  /\ phase = "Sepals" /\ step = "base"
  /\ step' = "loop"
  /\ UNCHANGED <<phase, loopI, parts, petals, thorn, prevT, mergeCalls, sinceMerge, lastMerged,
                 memo, synth, handed, nextId, renders, frames, emissive, rotation>>

\* One iteration of the sepal loop: a clone of baseGeo is placed and pushed.
SepalStep ==
  /\ phase = "Sepals" /\ step = "loop"
  /\ loopI < sepalCount
  /\ PushPart
  /\ loopI' = loopI + 1
  /\ step' = IF loopI + 1 < sepalCount THEN "loop" ELSE "merge"
  /\ UNCHANGED <<phase, petals, thorn, prevT, mergeCalls, lastMerged, memo, synth, handed,
                 nextId, renders, frames, emissive, rotation>>

\* return mergeGeometries(geometries)
SepalReturn ==
  /\ phase = "Sepals" /\ step = "merge"
  /\ MergeCall("Sepals")
  /\ FactoryReturn("Sepals", [id |-> nextId, parts |-> parts])
  /\ UNCHANGED <<phase, loopI, parts, petals, thorn, prevT, synth, handed, renders, frames,
                 emissive, rotation>>

\* --------------------------------------------------------------------- Stem
thornCount == 20

\* Math.random() in millionths: the ends of [0, 1) and two values between.
RandomDraws == {0, 250000, 500000, 999975}

\* Mutant: a jitter ten times as wide.
TJitterWide(r) == ((r - 500000) * 40) \div 100

\* tJitter = (Math.random() - 0.5) * 0.04, in millionths.
TJitter(r) == ((r - 500000) * 4) \div 100

\* tBase = 0.15 + (i / thornCount) * 0.83, in millionths.
TBase(i) == 150000 + (i * 830000) \div thornCount

Min(a, b) == IF a < b THEN a ELSE b

Max(a, b) == IF a > b THEN a ELSE b

\* Mutant: the clamp without its upper bound.
ClampTLowerOnly(x) == Max(120000, x)

\* t = Math.max(0.12, Math.min(0.99, x)), in millionths.
ClampT(x) == Max(120000, Min(990000, x))

\* The tangents the curve may return: world up and down, the zero vector, short
\* and long vectors, and directions across the 0.9 threshold of |y|.
RawTangents ==
  { Vec(0, 1, 0, 1), Vec(0, -1, 0, 1), Vec(0, 0, 0, 1), Vec(0, -2, 0, 1), Vec(0, -1, 0, 10),
    Vec(3, 4, 0, 50), Vec(1, 0, 0, 1), Vec(0, 0, 1, 1), Vec(3, 0, 4, 5), Vec(0, -4, 3, 5),
    Vec(0, -12, 5, 13), Vec(5, -12, 0, 13) }

\* Rotation angles with rational cosine c / m and sine s / m.
Angles ==
  { [c |-> 1, s |-> 0, m |-> 1], [c |-> 0, s |-> 1, m |-> 1], [c |-> -1, s |-> 0, m |-> 1],
    [c |-> 3, s |-> 4, m |-> 5], [c |-> -4, s |-> -3, m |-> 5], [c |-> 5, s |-> -12, m |-> 13] }

FallbackTangent == Vec(0, -1, 0, 1)

\* Mutant: the degeneracy test on the tangent before normalisation.
TangentRawTest(raw) ==
  IF LengthSqBelow(raw, 1, 10) THEN FallbackTangent ELSE Normalize(raw)

\* let tangent = curve.getTangent(t).normalize();
\* if (tangent.lengthSq() < 0.1) tangent = new Vector3(0, -1, 0)
Tangent(raw) ==
  IF LengthSqBelow(Normalize(raw), 1, 10) THEN FallbackTangent ELSE Normalize(raw)

\* Mutant: the world up axis whatever the tangent.
UpAlwaysWorld(tangent) == Vec(0, 1, 0, 1)

\* let up = (0, 1, 0); if (Math.abs(tangent.y) > 0.9) up = (0, 0, 1)
Up(tangent) ==
  IF 10 * Abs(tangent.y) > 9 * tangent.d THEN Vec(0, 0, 1, 1) ELSE Vec(0, 1, 0, 1)

\* The basis handed to makeBasis for a tangent and a rotation angle.
ThornBasis(tangent, rot) ==
  LET up == Up(tangent)
      binormal == Normalize(CrossVectors(tangent, up))
      normal == Normalize(ApplyAxisAngle(binormal, tangent, rot))
      yAxis == normal
      zAxisApprox == Negate(tangent)
      xAxis == Normalize(CrossVectors(yAxis, zAxisApprox))
      zAxis == Normalize(CrossVectors(xAxis, yAxis))
  IN  [up |-> up, xAxis |-> xAxis, yAxis |-> yAxis, zAxis |-> zAxis]

\* The curve parameter of thorn i for a random draw r.
ThornParam(i, r) ==
  [NoThorn EXCEPT !.i = i, !.tBase = TBase(i), !.tJitter = TJitter(r),
                  !.t = ClampT(TBase(i) + TJitter(r))]

\* The frame of a thorn for a curve tangent and a rotation angle.
ThornFrame(th, raw, rot) ==
  LET basis == ThornBasis(Tangent(raw), rot)
  IN  [th EXCEPT !.raw = raw, !.tangent = Tangent(raw), !.up = basis.up,
                 !.xAxis = basis.xAxis, !.yAxis = basis.yAxis, !.zAxis = basis.zAxis]

\* stemGeo and receptacleGeo are pushed; thornBaseGeo = createThornGeometry()
StemBase ==
  /\ phase = "Stem" /\ step = "stem"
  /\ parts' = parts + 2
  /\ sinceMerge' = sinceMerge + 2
  /\ step' = "thorns"
  /\ UNCHANGED <<phase, loopI, petals, thorn, prevT, mergeCalls, lastMerged, memo, synth,
                 handed, nextId, renders, frames, emissive, rotation>>

\* A thorn iteration begins: tBase, tJitter and t are computed.
ThornStart ==
  /\ phase = "Stem" /\ step = "thorns"
  /\ loopI < thornCount
  /\ \E r \in RandomDraws : thorn' = ThornParam(loopI, r)
  /\ prevT' = IF loopI = 0 THEN -1 ELSE thorn.t
  /\ step' = "frame"
  /\ UNCHANGED <<phase, loopI, parts, petals, mergeCalls, sinceMerge, lastMerged, memo, synth,
                 handed, nextId, renders, frames, emissive, rotation>>

\* The thorn iteration ends: the curve is sampled, the frame is built, a clone
\* of thornBaseGeo is placed and pushed.
ThornStep ==
  /\ phase = "Stem" /\ step = "frame"
  /\ \E raw \in RawTangents, rot \in Angles : thorn' = ThornFrame(thorn, raw, rot)
  /\ PushPart
  /\ loopI' = loopI + 1
  /\ step' = IF loopI + 1 < thornCount THEN "thorns" ELSE "leafBase"
  /\ UNCHANGED <<phase, petals, prevT, mergeCalls, lastMerged, memo, synth, handed, nextId,
                 renders, frames, emissive, rotation>>

\* The geometries createFullLeafGeometry pushes on its own array: node, petiole,
\* two stipules and the blade.
leafParts == 5

\* Mutant: the leaf is assembled without a call of mergeGeometries.
LeafBaseInline ==
  /\ phase = "Stem" /\ step = "leafBase"
  /\ loopI' = 0
  /\ step' = "leaves"
  /\ UNCHANGED <<phase, parts, petals, thorn, prevT, mergeCalls, sinceMerge, lastMerged, memo,
                 synth, handed, nextId, renders, frames, emissive, rotation>>

\* const leafBaseGeo = createFullLeafGeometry(), which ends in
\* return mergeGeometries(geos)
LeafBase ==
  /\ phase = "Stem" /\ step = "leafBase"
  /\ lastMerged' = [id |-> nextId, parts |-> leafParts]
  /\ nextId' = nextId + 1
  /\ mergeCalls' = [mergeCalls EXCEPT !["Stem"] = @ + 1]
  /\ sinceMerge' = 0
  /\ loopI' = 0
  /\ step' = "leaves"
  /\ UNCHANGED <<phase, parts, petals, thorn, prevT, memo, synth, handed, renders, frames,
                 emissive, rotation>>

leafCount == 4

\* One call of the leavesData.forEach callback: a clone of leafBaseGeo is placed
\* and pushed.
LeafStep ==
  /\ phase = "Stem" /\ step = "leaves"
  /\ loopI < leafCount
  /\ PushPart
  /\ loopI' = loopI + 1
  /\ step' = IF loopI + 1 < leafCount THEN "leaves" ELSE "merge"
  /\ UNCHANGED <<phase, petals, thorn, prevT, mergeCalls, lastMerged, memo, synth, handed,
                 nextId, renders, frames, emissive, rotation>>

\* return mergeGeometries(geometries); the loop's locals are gone.
StemReturn ==
  /\ phase = "Stem" /\ step = "merge"
  /\ MergeCall("Stem")
  /\ FactoryReturn("Stem", [id |-> nextId, parts |-> parts])
  /\ thorn' = NoThorn
  /\ prevT' = -1
  /\ UNCHANGED <<phase, loopI, parts, petals, synth, handed, renders, frames, emissive, rotation>>

\* ---------------------------------------------------------- frame callbacks
\* emissiveIntensity = 1.2 + sin(t * 1.5) * 0.2 at the sine's -1, 0 and 1, in tenths.
EmissiveLevels == {10, 12, 14}

\* FlowerHead's useFrame callback.
FlowerFrame ==
  /\ phase = "mounted"
  /\ frames < MaxFrames
  /\ frames' = frames + 1
  /\ emissive' \in EmissiveLevels
  /\ UNCHANGED <<phase, step, loopI, parts, petals, thorn, prevT, mergeCalls, sinceMerge,
                 lastMerged, memo, synth, handed, nextId, renders, rotation>>

\* Rose's useFrame callback: rotation.z and rotation.x follow the clock.
RoseFrame ==
  /\ phase = "mounted"
  /\ frames < MaxFrames
  /\ frames' = frames + 1
  /\ rotation' \in {-1, 0, 1}
  /\ UNCHANGED <<phase, step, loopI, parts, petals, thorn, prevT, mergeCalls, sinceMerge,
                 lastMerged, memo, synth, handed, nextId, renders, emissive>>

RoseNext ==
  \/ StartRender /\ UNCHANGED mergeVars
  \/ UseMemo /\ UNCHANGED mergeVars
  \/ PetalStep /\ UNCHANGED mergeVars
  \/ CenterStep /\ UNCHANGED mergeVars
  \/ FlowerMerge /\ UNCHANGED mergeVars
  \/ FlowerReturn /\ UNCHANGED mergeVars
  \/ ReturnJsx /\ UNCHANGED mergeVars
  \/ SepalBase /\ UNCHANGED mergeVars
  \/ SepalStep /\ UNCHANGED mergeVars
  \/ SepalReturn /\ UNCHANGED mergeVars
  \/ StemBase /\ UNCHANGED mergeVars
  \/ ThornStart /\ UNCHANGED mergeVars
  \/ ThornStep /\ UNCHANGED mergeVars
  \/ LeafBase /\ UNCHANGED mergeVars
  \/ LeafStep /\ UNCHANGED mergeVars
  \/ StemReturn /\ UNCHANGED mergeVars
  \/ FlowerFrame /\ UNCHANGED mergeVars
  \/ RoseFrame /\ UNCHANGED mergeVars


Init == MergeInit /\ RoseInit

Next ==
  \/ Push /\ UNCHANGED <<inner, roseVars>>
  \/ Call /\ UNCHANGED <<inner, roseVars>>
  \/ CountStep /\ UNCHANGED <<inner, roseVars>>
  \/ Alloc /\ UNCHANGED <<inner, roseVars>>
  \/ CopyStep /\ UNCHANGED <<inner, roseVars>>
  \/ Finish /\ UNCHANGED <<inner, roseVars>>
  \/ NewArray /\ UNCHANGED <<inner, roseVars>>
  \/ PushClone /\ UNCHANGED <<inner, roseVars>>

Spec == Init /\ [][Next]_vars

SpecRose == Init /\ [][RoseNext]_vars

SpecNest == Init /\ [][NestNext]_vars

\* ------------------------------------------------- the clamp on its own
\* Jitters far outside and at the edges of what the clamp lets through.
AnyJitters ==
  {-1000000000, -1000000, -30001, -30000, -20000, 0, 19999, 51500, 51501, 1000000, 1000000000}

\* Lines 533 and 535 for a thorn index and a jitter of any size.
ClampAnyJitter ==
  /\ \E i \in 0..(thornCount - 1), j \in AnyJitters :
       thorn' = [NoThorn EXCEPT !.i = i, !.tBase = TBase(i), !.tJitter = j,
                                !.t = ClampT(TBase(i) + j)]
  /\ UNCHANGED <<phase, step, loopI, parts, petals, prevT, mergeCalls, sinceMerge, lastMerged,
                 memo, synth, handed, nextId, renders, frames, emissive, rotation>>

ClampNext == ClampAnyJitter /\ UNCHANGED mergeVars

SpecClamp == Init /\ [][ClampNext]_vars

\* ===================================================================== claims
\* The quantities the claims speak of, read off the state of a call.
InCall == pc \in {"count", "alloc", "copy", "finish", "returned", "thrown"}

\* The call returned the buffer it built from a non-empty array.
ReturnedMerged == pc = "returned" /\ argDefined /\ Len(geometries) > 0

NumInputs == Len(geometries)

\* The number of vertices and of indices a buffer holds; a buffer without the
\* attribute holds none.
VertexCountOf(geo) == IF geo.position.present THEN Count(heap, geo.position) ELSE 0

IndexCountOf(geo) == IF geo.index.present THEN Count(heap, geo.index) ELSE 0

VCount(j) == VertexCountOf(geometries[j])

ICount(j) == IF geometries[j].index.present THEN IndexCountOf(geometries[j]) ELSE VCount(j)

RECURSIVE VertsBefore(_)
VertsBefore(j) == IF j <= 1 THEN 0 ELSE VertsBefore(j - 1) + VCount(j - 1)

RECURSIVE IdxBefore(_)
IdxBefore(j) == IF j <= 1 THEN 0 ELSE IdxBefore(j - 1) + ICount(j - 1)

TotalVerts == VertsBefore(NumInputs + 1)

TotalIdx == IdxBefore(NumInputs + 1)

AllHavePosition == \A j \in 1..NumInputs : geometries[j].position.present

\* Element i (0-based) of the array behind an attribute.
Elem(a, i) == heap[a.array][i + 1]

\* C1: the positions of the result are the inputs' positions concatenated in
\* input order: the merged vertex count is the sum of the inputs' vertex counts
\* and vertex k of input j sits unchanged at slot VertsBefore(j) + k.
C1_PositionsConcatenated ==
  (ReturnedMerged /\ AllHavePosition) =>
    /\ merged.geo.position.present
    /\ merged.geo.position.itemSize = 3
    /\ Len(heap[merged.geo.position.array]) = 3 * TotalVerts
    /\ VertexCountOf(merged.geo) = TotalVerts
    /\ \A j \in 1..NumInputs : \A k \in 0..(VCount(j) - 1) : \A c \in 0..2 :
         Elem(merged.geo.position, (VertsBefore(j) + k) * 3 + c)
           = Elem(geometries[j].position, k * 3 + c)

\* Three inputs with vertices were merged, the first two of different sizes.
C1_Witness ==
  /\ ReturnedMerged
  /\ NumInputs = 3
  /\ VCount(1) > 0 /\ VCount(2) > 0 /\ VCount(3) > 0
  /\ VCount(1) # VCount(2)

\* Every index of every indexed input is below that input's vertex count.
InputIndicesValid ==
  \A j \in 1..NumInputs :
    geometries[j].index.present =>
      \A i \in 0..(IndexCountOf(geometries[j]) - 1) :
        /\ 0 <= GetX(heap, geometries[j].index, i)
        /\ GetX(heap, geometries[j].index, i) < VCount(j)

\* C2: when every indexed input keeps its indices below its own vertex count,
\* every index of the result is >= 0 and < the merged vertex count.
C2_IndicesInRange ==
  (ReturnedMerged /\ InputIndicesValid) =>
    /\ merged.geo.index.present
    /\ \A i \in 0..(IndexCountOf(merged.geo) - 1) :
         /\ 0 <= GetX(heap, merged.geo.index, i)
         /\ GetX(heap, merged.geo.index, i) < VertexCountOf(merged.geo)

\* A non-indexed input, then an indexed one, then a non-indexed one were merged.
C2_Witness ==
  /\ ReturnedMerged
  /\ NumInputs = 3
  /\ ~geometries[1].index.present /\ VCount(1) > 0
  /\ geometries[2].index.present /\ ICount(2) > 0
  /\ ~geometries[3].index.present /\ VCount(3) > 0

\* C3: indices are rebased per input: merged index IdxBefore(j) + i is index i of
\* an indexed input j plus VertsBefore(j); a non-indexed input with n vertices
\* gives the run VertsBefore(j) .. VertsBefore(j) + n - 1; the merged index count
\* is the sum of (index count if indexed, else vertex count).
C3_IndicesRebased ==
  ReturnedMerged =>
    /\ merged.geo.index.present
    /\ IndexCountOf(merged.geo) = TotalIdx
    /\ \A j \in 1..NumInputs : \A i \in 0..(ICount(j) - 1) :
         GetX(heap, merged.geo.index, IdxBefore(j) + i)
           = IF geometries[j].index.present
               THEN GetX(heap, geometries[j].index, i) + VertsBefore(j)
               ELSE VertsBefore(j) + i

\* The example: 4 vertices / 6 indices, then 3 vertices without index, give
\* 7 vertices and 9 indices, the first 6 unshifted and the last 3 equal to 4,5,6.
C3_Witness ==
  /\ ReturnedMerged
  /\ NumInputs = 2
  /\ geometries[1].index.present /\ VCount(1) = 4 /\ ICount(1) = 6
  /\ ~geometries[2].index.present /\ VCount(2) = 3
  /\ VertexCountOf(merged.geo) = 7
  /\ IndexCountOf(merged.geo) = 9
  /\ SubSeq(heap[merged.geo.index.array], 1, 6) = heap[geometries[1].index.array]
  /\ SubSeq(heap[merged.geo.index.array], 7, 9) = <<4, 5, 6>>

\* C4: called with an empty or missing array, mergeGeometries returns a buffer
\* with 0 vertices and 0 indices and does not throw.
C4_EmptyMerge ==
  (InCall /\ (~argDefined \/ Len(geometries) = 0)) =>
    /\ pc = "returned"
    /\ merged.returned
    /\ VertexCountOf(merged.geo) = 0
    /\ IndexCountOf(merged.geo) = 0

\* A call without an array returned.
C4_Witness == pc = "returned" /\ ~argDefined /\ merged.returned

\* C5 (the claim as stated): the buffer merge(empty) returns is a valid input: a
\* call whose only inputs without position are clones of that buffer does not
\* throw.
C5_EmptyBufferAccepted ==
  ( /\ InCall /\ argDefined
    /\ leafBaseGeo.returned /\ leafBaseGeo.geo = EmptyGeometry
    /\ \A j \in 1..NumInputs : LacksPosition(geometries[j]) => j \in cloned )
  => pc # "thrown"

\* C6: an input without position makes the call fail: the first loop never
\* passes it, nothing is allocated and nothing is returned.
C6_PositionlessInputThrows ==
  (InCall /\ argDefined /\ ~AllHavePosition) =>
    /\ pc \in {"count", "thrown"}
    /\ ~merged.returned
    /\ positionArr = 0 /\ normalArr = 0 /\ uvArr = 0 /\ indicesArr = 0
    /\ \A j \in 1..(gi - 1) : ~LacksPosition(geometries[j])
    /\ pc = "thrown" => LacksPosition(geometries[gi])

\* The call threw on an input without position that is the last of three.
C6_Witness ==
  /\ pc = "thrown"
  /\ NumInputs = 3
  /\ ~LacksPosition(geometries[1]) /\ ~LacksPosition(geometries[2])
  /\ LacksPosition(geometries[3])
  /\ VCount(1) > 0

\* C7: a merged vertex from an input with normals keeps that input's normal; a
\* merged vertex from an input without normals has normal (0,1,0).
C7_NormalsCopiedOrDefault ==
  ReturnedMerged =>
    /\ merged.geo.normal.present
    /\ merged.geo.normal.itemSize = 3
    /\ Len(heap[merged.geo.normal.array]) = 3 * TotalVerts
    /\ \A j \in 1..NumInputs : \A k \in 0..(VCount(j) - 1) :
         LET slot == (VertsBefore(j) + k) * 3
         IN  IF geometries[j].normal.present
               THEN \A c \in 0..2 :
                      Elem(merged.geo.normal, slot + c) = Elem(geometries[j].normal, k * 3 + c)
               ELSE <<Elem(merged.geo.normal, slot), Elem(merged.geo.normal, slot + 1),
                      Elem(merged.geo.normal, slot + 2)>> = <<0, 1, 0>>

\* An input without normals was merged between two inputs with normals.
C7_Witness ==
  /\ ReturnedMerged
  /\ NumInputs = 3
  /\ geometries[1].normal.present /\ VCount(1) > 0
  /\ ~geometries[2].normal.present /\ VCount(2) > 0
  /\ geometries[3].normal.present /\ VCount(3) > 0

\* C8: the result has one uv slot per merged vertex; the slots of an input with
\* uvs hold its uvs, the slots of an input without uvs are (0,0).
C8_UvsCopiedOrZero ==
  ReturnedMerged =>
    /\ merged.geo.uv.present
    /\ merged.geo.uv.itemSize = 2
    /\ Len(heap[merged.geo.uv.array]) = 2 * TotalVerts
    /\ \A j \in 1..NumInputs : \A k \in 0..(VCount(j) - 1) : \A c \in 0..1 :
         Elem(merged.geo.uv, (VertsBefore(j) + k) * 2 + c)
           = IF geometries[j].uv.present THEN Elem(geometries[j].uv, k * 2 + c) ELSE 0

\* An input without uvs, then one with uvs, then one without were merged.
C8_Witness ==
  /\ ReturnedMerged
  /\ NumInputs = 3
  /\ ~geometries[1].uv.present /\ VCount(1) > 0
  /\ geometries[2].uv.present /\ VCount(2) > 0
  /\ ~geometries[3].uv.present /\ VCount(3) > 0

\* The heap ids of the arrays a geometry refers to.
ArraysOf(geo) ==
  {a.array : a \in {x \in {geo.position, geo.normal, geo.uv, geo.index} : x.present}}

InputArrays == UNION {ArraysOf(geometries[j]) : j \in 1..NumInputs}

\* C9: no step of mergeGeometries changes an input (neither which attributes it
\* has nor the contents of their arrays), and the buffer returned shares no
\* array with an input.
C9_InputsUntouched ==
  [][ (pc' # "build") =>
        /\ geometries' = geometries
        /\ \A id \in InputArrays : heap'[id] = heap[id]
        /\ (pc' = "returned" /\ merged'.returned) =>
             ArraysOf(merged'.geo) \cap InputArrays = {} ]_vars

\* A call returned whose inputs include one with all four attributes and vertices.
C9_Witness ==
  /\ ReturnedMerged
  /\ NumInputs >= 2
  /\ \E j \in 1..NumInputs :
       /\ geometries[j].normal.present /\ geometries[j].uv.present
       /\ geometries[j].index.present /\ VCount(j) > 0

IndexedCountsAreTriples ==
  \A j \in 1..NumInputs : geometries[j].index.present => ICount(j) % 3 = 0

NonIndexedCountsAreTriples ==
  \A j \in 1..NumInputs : (~geometries[j].index.present) => VCount(j) % 3 = 0

\* C10 (the claim as stated): when the indexed inputs have index counts that are
\* multiples of 3, the index count of the result is a multiple of 3, whatever
\* the vertex counts of the non-indexed inputs.
C10_TriplesAnyNonIndexed ==
  (ReturnedMerged /\ IndexedCountsAreTriples) => IndexCountOf(merged.geo) % 3 = 0

\* C10 (amended): when the indexed inputs have index counts that are multiples
\* of 3 and the non-indexed inputs have vertex counts that are multiples of 3,
\* the index count of the result is a multiple of 3.
C10_TriplesWhenInputsAreTriples ==
  (pc = "returned" /\ (ReturnedMerged =>
      (IndexedCountsAreTriples /\ NonIndexedCountsAreTriples)))
    => IndexCountOf(merged.geo) % 3 = 0

\* A non-indexed input with 3 vertices and an indexed one with 6 indices were merged.
C10_Witness ==
  /\ ReturnedMerged
  /\ IndexedCountsAreTriples /\ NonIndexedCountsAreTriples
  /\ \E j \in 1..NumInputs : ~geometries[j].index.present /\ VCount(j) = 3
  /\ \E j \in 1..NumInputs : geometries[j].index.present /\ ICount(j) = 6
  /\ IndexCountOf(merged.geo) = 9

\* ================================================================ Rose claims
\* C11: petal i of the flower head (0 <= i < 22) is placed at the angle
\* i * 137.5 degrees: consecutive petals differ by exactly 137.5 degrees modulo
\* 360, and no two of the petals have the same angle modulo 360.
C11_GoldenAngles ==
  /\ Len(petals) <= 22
  /\ \A k \in 1..Len(petals) : petals[k].i = k - 1 /\ petals[k].theta = (k - 1) * 1375
  /\ \A k \in 1..(Len(petals) - 1) : (petals[k + 1].theta - petals[k].theta) % 3600 = 1375
  /\ \A j, k \in 1..Len(petals) : j # k => petals[j].theta % 3600 # petals[k].theta % 3600

\* All 22 petals are placed.
C11_Witness == Len(petals) = 22 /\ step = "center"

\* C12: for every thorn i in 0..19 and a jitter of any size, the curve parameter
\* t of the thorn satisfies 0.12 <= t <= 0.99.
C12_ClampRange == thorn.i >= 0 => 120000 <= thorn.t /\ thorn.t <= 990000

\* A jitter far above the range is cut back to 0.99.
C12_Witness == thorn.i = 19 /\ thorn.tJitter > 1000000 /\ thorn.t = 990000

\* The vector has length 1.
IsUnit(v) == Norm2(v) = v.d * v.d

Perpendicular(a, b) == a.x * b.x + a.y * b.y + a.z * b.z = 0

Orthonormal(a, b, c) ==
  /\ IsUnit(a) /\ IsUnit(b) /\ IsUnit(c)
  /\ Perpendicular(a, b) /\ Perpendicular(b, c) /\ Perpendicular(a, c)

\* The frame of the latest thorn is built.
FrameBuilt == thorn.i >= 0 /\ thorn.tangent # ZeroVec

\* C13: when the tangent of a thorn is the world up axis (0, 1, 0), the up
\* vector is replaced by (0, 0, 1), and for every rotation angle the basis
\* (xAxis, yAxis, zAxis) handed to makeBasis is orthonormal.
C13_UpTangentBasisOrthonormal ==
  (FrameBuilt /\ thorn.tangent = Vec(0, 1, 0, 1)) =>
      /\ thorn.up = Vec(0, 0, 1, 1)
      /\ Orthonormal(thorn.xAxis, thorn.yAxis, thorn.zAxis)

\* A thorn on a tangent pointing up, turned by the angle with cosine 3/5.
C13_Witness ==
  /\ FrameBuilt
  /\ thorn.tangent = Vec(0, 1, 0, 1)
  /\ thorn.yAxis.d = 5
  /\ Orthonormal(thorn.xAxis, thorn.yAxis, thorn.zAxis)

\* b points the way a does.
SameDirection(a, b) ==
  /\ Norm2(CrossVectors(a, b)) = 0
  /\ a.x * b.x + a.y * b.y + a.z * b.z > 0

Petal(i) == petals[i + 1]

\* C15: the petals fall into four tiers by index, 0-4, 5-9, 10-15 and 16-21,
\* each with its own radius, height, scale and tilt; petal 0 gets
\* (radius, scale, rotX) = (0.05, 0.35, 0.1) and petal 20 gets
\* (0.45 + (4/6) * 0.05, 0.95, 0.2).  In units of 1/3000.
C15_PetalTiers ==
  /\ \A k \in 1..Len(petals) :
       LET i == petals[k].i
           p == petals[k]
       IN  /\ i \in 0..4 =>
                p.radius = 150 /\ p.y = 1800 + 90 * i /\ p.scale = 1050 /\ p.rotX = 300
           /\ i \in 5..9 =>
                /\ 5 * (p.radius - 450) = 240 * (i - 5)
                /\ 5 * (1950 - p.y) = 300 * (i - 5)
                /\ 5 * (p.scale - 1500) = 450 * (i - 5)
                /\ p.rotX = 150
           /\ i \in 10..15 =>
                /\ 6 * (p.radius - 750) = 450 * (i - 10)
                /\ 6 * (1650 - p.y) = 240 * (i - 10)
                /\ 6 * (p.scale - 2100) = 450 * (i - 10)
                /\ p.rotX = 300
           /\ i \in 16..21 =>
                /\ 6 * (p.radius - 1350) = 150 * (i - 16)
                /\ 6 * (1350 - p.y) = 150 * (i - 16)
                /\ p.scale = 2850
                /\ p.rotX = 600
  /\ Len(petals) > 0 =>
       Petal(0).radius = 150 /\ Petal(0).scale = 1050 /\ Petal(0).rotX = 300
  /\ Len(petals) > 20 =>
       Petal(20).radius = 1350 + 100 /\ Petal(20).scale = 2850 /\ Petal(20).rotX = 600

\* Petal 20 is placed, in the outermost tier.
C15_Witness == Len(petals) > 20 /\ Petal(20).i = 20 /\ Petal(20).rotX = 600 /\ Petal(0).i = 0

\* The factory of organ o returns in this step.
Returns(o) == ~memo[o].set /\ memo'[o].set

\* C16 as stated: the assembly of each organ involves exactly one call of
\* mergeGeometries.
C16_OneMergePerOrgan == \A o \in Organs : memo[o].set => mergeCalls[o] = 1

\* C16 amended: the assembly of the flower head and of the sepals involves one
\* call of mergeGeometries, that of the stem two (the leaf's own and the final
\* one); the last call comes after every geometry is pushed and its result is
\* the organ's buffer.
C16_MergeCallsPerOrgan ==
  [][\A o \in Organs :
       Returns(o) => /\ mergeCalls'[o] = IF o = "Stem" THEN 2 ELSE 1
                     /\ memo'[o].buf = lastMerged'
                     /\ sinceMerge' = 0
                     /\ lastMerged'.parts = parts']_vars

\* The three organs are assembled, the stem with its two calls.
C16_Witness ==
  /\ \A o \in Organs : memo[o].set
  /\ mergeCalls = [o \in Organs |-> IF o = "Stem" THEN 2 ELSE 1]
  /\ memo["Stem"].buf.parts = 2 + thornCount + leafCount

\* C17: for one mounted Rose, the buffer of each organ is synthesized once:
\* whatever re-renders and frame callbacks follow, the factory does not run
\* again, and the buffer the mesh is given stays the same object with the same
\* contents.
C17_SynthesizedOnce ==
  [][\A o \in Organs :
       /\ synth'[o] <= 1
       /\ memo[o].set => memo'[o] = memo[o] /\ synth'[o] = synth[o]
       /\ handed[o].set => handed'[o] = handed[o] /\ handed'[o] = memo'[o]]_vars

\* Rose is mounted, has been rendered again, and frames have passed.
C17_Witness ==
  /\ phase = "mounted"
  /\ renders >= 2
  /\ frames >= 2
  /\ emissive # 12
  /\ \A o \in Organs : synth[o] = 1 /\ handed[o].set /\ handed[o] = memo[o]

\* This step pushes an instance of the base on the array.
InstancePushed == cloned' # cloned /\ Len(geometries') = Len(geometries) + 1

\* The arrays of attribute name of the two geometries, in the two heaps, hold
\* the same values but for a shift t.
SameButShift(h1, g1, h2, g2, name, t) ==
  /\ g2[name].present = g1[name].present
  /\ g1[name].present =>
       /\ g2[name].itemSize = g1[name].itemSize
       /\ Len(h2[g2[name].array]) = Len(h1[g1[name].array])
       /\ \A k \in 1..Len(h1[g1[name].array]) :
            h2[g2[name].array][k] = h1[g1[name].array][k] + t

\* C18: an instancing loop clones the base and transforms the clone only: the
\* base and the earlier instances keep their contents, the new instance has
\* arrays of its own, and it is the base under its own transform alone.
C18_InstancesAreTransformedClones ==
  [][InstancePushed =>
       LET inst == geometries'[Len(geometries')]
           base == leafBaseGeo.geo
       IN  /\ leafBaseGeo' = leafBaseGeo
           /\ \A a \in 1..Len(heap) : heap'[a] = heap[a]
           /\ \A j \in 1..Len(geometries) : geometries'[j] = geometries[j]
           /\ ArraysOf(inst) \cap (1..Len(heap)) = {}
           /\ SameButShift(heap, base, heap', inst, "position", 1000 * pushes')
           /\ SameButShift(heap, base, heap', inst, "normal", 0)
           /\ SameButShift(heap, base, heap', inst, "uv", 0)
           /\ SameButShift(heap, base, heap', inst, "index", 0)]_vars

\* Two instances of a base with vertices are on the array.
C18_Witness ==
  /\ pc = "build"
  /\ leafBaseGeo.returned
  /\ leafBaseGeo.geo.position.present
  /\ VertexCountOf(leafBaseGeo.geo) > 0
  /\ {1, 2} \subseteq cloned
  /\ Len(geometries) >= 2
  /\ heap[geometries[2].position.array] # heap[geometries[1].position.array]

RECURSIVE Flatten(_)
Flatten(ss) == IF ss = <<>> THEN <<>> ELSE Head(ss) \o Flatten(Tail(ss))

\* The array with the kept buffer replaced by the geometries it was merged from.
FlatInputs ==
  Flatten([j \in 1..Len(geometries) |-> IF j \in cloned THEN inner ELSE <<geometries[j]>>])

RECURSIVE VertsBeforeIn(_, _)
VertsBeforeIn(gs, j) ==
  IF j <= 1 THEN 0 ELSE VertsBeforeIn(gs, j - 1) + VertexCountOf(gs[j - 1])

\* What one merge of the geometries gs holds: positions in order, normals
\* copied or (0, 1, 0), uvs copied or zero, indices moved by the vertices before.
FlatPositions(gs) == Flatten([j \in 1..Len(gs) |-> heap[gs[j].position.array]])

FlatNormals(gs) ==
  Flatten([j \in 1..Len(gs) |->
             IF gs[j].normal.present THEN heap[gs[j].normal.array]
             ELSE [k \in 1..(3 * VertexCountOf(gs[j])) |-> IF k % 3 = 2 THEN 1 ELSE 0]])

FlatUvs(gs) ==
  Flatten([j \in 1..Len(gs) |->
             IF gs[j].uv.present THEN heap[gs[j].uv.array]
             ELSE [k \in 1..(2 * VertexCountOf(gs[j])) |-> 0]])

FlatIndices(gs) ==
  Flatten([j \in 1..Len(gs) |->
             IF gs[j].index.present
               THEN [k \in 1..Len(heap[gs[j].index.array]) |->
                       heap[gs[j].index.array][k] + VertsBeforeIn(gs, j)]
               ELSE [k \in 1..VertexCountOf(gs[j]) |-> (k - 1) + VertsBeforeIn(gs, j)]])

\* The buffer returned holds what one merge of gs holds.
ResultIsMergeOf(gs) ==
  /\ heap[merged.geo.position.array] = FlatPositions(gs)
  /\ heap[merged.geo.normal.array] = FlatNormals(gs)
  /\ heap[merged.geo.uv.array] = FlatUvs(gs)
  /\ heap[merged.geo.index.array] = FlatIndices(gs)

\* C19: merging is associative and idempotent on a single input: the merge of
\* an array that holds the result of an earlier merge has the positions,
\* normals, uvs and indices of the merge of the array with the earlier inputs
\* in the result's place; merge([merge([G])]) is merge([G]).
C19_NestedMergeIsFlatMerge ==
  ReturnedMerged => ResultIsMergeOf(geometries) /\ ResultIsMergeOf(FlatInputs)

\* merge([merge([A, B]), C]) returned, A without normals, uvs or indices.
C19_Witness ==
  /\ ReturnedMerged
  /\ cloned = {1}
  /\ Len(geometries) = 2
  /\ Len(inner) = 2
  /\ \E j \in 1..2 : ~inner[j].normal.present /\ ~inner[j].index.present
  /\ \A j \in 1..Len(FlatInputs) : VertexCountOf(FlatInputs[j]) > 0


\* The latest thorn has its curve parameter, and so has the thorn before it.
TwoThornsPlaced == thorn.i >= 1 /\ prevT >= 0

\* C20: with the jitter the code draws, in [-0.02, 0.02), and tBase = 0.15 +
\* (i / 20) * 0.83, the clamp changes the value of no thorn i in 0..19, and the
\* curve parameters increase strictly from each thorn to the next.
C20_JitterKeepsOrder ==
  /\ thorn.i >= 0 =>
       /\ -20000 <= thorn.tJitter /\ thorn.tJitter < 20000
       /\ 20 * (thorn.tBase - 150000) = thorn.i * 830000
       /\ thorn.t = thorn.tBase + thorn.tJitter
  /\ TwoThornsPlaced => prevT < thorn.t

\* The last thorn follows a thorn with the largest jitter, with the smallest.
C20_Witness ==
  /\ TwoThornsPlaced
  /\ thorn.i = 19
  /\ thorn.tJitter = -20000
  /\ prevT = TBase(18) + 19999
  /\ prevT < thorn.t

================================================================
